---- MODULE Spec2Model ----
(***************************************************************************)
(* A model of declination.py: the line parser, the query builder, the      *)
(* response decoder, the line formatter and the driver that runs them over *)
(* an input file and collects the output document.                         *)
(*                                                                         *)
(* Representation.                                                         *)
(*  - A Python str is a sequence of one-character strings.                 *)
(*  - A Python value whose type the code inspects is a record              *)
(*    [type |-> "NoneType" | "str" | "list" | "dict", v |-> value].        *)
(*  - The result of a call that may raise is a record                      *)
(*    [exc |-> "none" | <exception class>, v |-> returned value].          *)
(*  - A character outside what a TLA+ string can hold is a string that     *)
(*    names it: DEGREE_SIGN, PRIME and the whitespace "U+....".            *)
(*  - A Python float is an IEEE 754 binary64 value, a record               *)
(*    [cls |-> "finite" | "inf" | "nan", neg, m, e], with the value        *)
(*    (-1)^neg * m * 2^e when finite.  m is a natural number of any size,  *)
(*    held as a sequence of limbs.  Conversions from and to decimal text   *)
(*    and the arithmetic round as the hardware does, to nearest, ties to   *)
(*    even.                                                                *)
(***************************************************************************)
EXTENDS Integers, Sequences, FiniteSets, TLC

----------------------------------------------------------------------------
(* Bounds of the model *)

MaxLines == 2        \* lines of an input file
MaxRespLines == 3    \* newline-separated pieces of a response text
MaxTokens == 10      \* tokens of a line handed to line2array
MaxFields == 10      \* largest n_fields handed to line2array

----------------------------------------------------------------------------
(* Program constants *)

COMMENT_INDICATOR == "#"
\* "http://www.ngdc.noaa.gov/geomag-web/calculators/calculateDeclination"
SITE == <<"h","t","t","p",":","/","/","w","w","w",".","n","g","d","c",".","n","o","a","a",".","g","o","v","/","g","e","o","m","a","g","-","w","e","b","/","c","a","l","c","u","l","a","t","o","r","s","/","c","a","l","c","u","l","a","t","e","D","e","c","l","i","n","a","t","i","o","n">>
n_FIELDS == 8
\* "2015 08 28  63 375  96 15  -2.46"
test_line == <<"2","0","1","5"," ","0","8"," ","2","8"," "," ","6","3"," ","3","7","5"," "," ","9","6"," ","1","5"," "," ","-","2",".","4","6">>
HEADER == <<"D","A","T","E"," "," "," "," "," "," "," ","L","a","t","i","t"," "," "," ","L","o","n","g","i","t"," "," "," "," ","g","r","i","d"," "," ","|"," ","d","e","c","D","a","t","e"," "," ","d","e","c","L","a","t"," "," ","d","e","c","L","o","n","g"," "," ","D","e","c","l"," "," ","g","r","i","d","D","e","c">>
\* "#! The following line is malformed:"
MalformedMarker == <<"#","!"," ","T","h","e"," ","f","o","l","l","o","w","i","n","g"," ","l","i","n","e"," ","i","s"," ","m","a","l","f","o","r","m","e","d",":">>
\* 'Error: Bad input line- not enough entries.'
NotEnoughEntries == <<"E","r","r","o","r",":"," ","B","a","d"," ","i","n","p","u","t"," ","l","i","n","e","-"," ","n","o","t"," ","e","n","o","u","g","h"," ","e","n","t","r","i","e","s",".">>
\* 'Error: Probably could not convert degrees &/or minutes into float.'
CouldNotConvert == <<"E","r","r","o","r",":"," ","P","r","o","b","a","b","l","y"," ","c","o","u","l","d"," ","n","o","t"," ","c","o","n","v","e","r","t"," ","d","e","g","r","e","e","s"," ","&","/","o","r"," ","m","i","n","u","t","e","s"," ","i","n","t","o"," ","f","l","o","a","t",".">>
\* the texts test() prints around its values
UrlIs == <<"U","R","L"," ","i","s"," ","'">>              \* "URL is '"
UrlEnd == <<"'",".">>             \* "'."
ResponseIs == <<"R","e","s","p","o","n","s","e"," ","i","s"," ",":","\n">>         \* "Response is :" and a newline
EndOfResponse == <<"\n","E","N","D"," ","o","f"," ","R","E","S","P","O","N","S","E">>      \* a newline and "END of RESPONSE"
\* "Response is of type <class 'str'>."
ResponseIsOfType == <<"R","e","s","p","o","n","s","e"," ","i","s"," ","o","f"," ","t","y","p","e"," ","<","c","l","a","s","s"," ","'","s","t","r","'",">",".">>
\* "Response as a dictionary is: "
ResponseAsDict == <<"R","e","s","p","o","n","s","e"," ","a","s"," ","a"," ","d","i","c","t","i","o","n","a","r","y"," ","i","s",":"," ">>
\* "Next 2 lines are header and the ouput:"
NextTwoLines == <<"N","e","x","t"," ","2"," ","l","i","n","e","s"," ","a","r","e"," ","h","e","a","d","e","r"," ","a","n","d"," ","t","h","e"," ","o","u","p","u","t",":">>
DEGREE_SIGN == "deg"   \* stands for the one character U+00B0
PRIME == "prime"       \* stands for the one character U+2032

----------------------------------------------------------------------------
(* Python values *)

None == [type |-> "NoneType", v |-> <<>>]
Str(s) == [type |-> "str", v |-> s]
List(a) == [type |-> "list", v |-> a]
Dict(d) == [type |-> "dict", v |-> d]
Return(x) == [exc |-> "none", v |-> x]
Raise(e) == [exc |-> e, v |-> <<>>]
\* Python truth value of None, a str or a list
Truthy(x) == x.type # "NoneType" /\ x.v # <<>>

\* Body(v) for the value v of x: an expression is evaluated once and its
\* value is used, where Python binds a name to a value
With(x, Body(_)) == CHOOSE r \in { Body(v) : v \in {x} } : TRUE

\* the least and the greatest member of a non-empty set of integers
MinOf(S) == With(S, LAMBDA T : CHOOSE i \in T : \A j \in T : i <= j)
MaxOf(S) == With(S, LAMBDA T : CHOOSE i \in T : \A j \in T : j <= i)

----------------------------------------------------------------------------
(* str methods *)

\* the characters str.isspace() holds of; those a TLA+ string cannot hold are
\* named by their code point
Whitespace ==
    { " ", "\t", "\n", "\r", "\f", "U+000B", "U+001C", "U+001D", "U+001E", "U+001F",
      "U+0085", "U+00A0", "U+1680", "U+2000", "U+2001", "U+2002", "U+2003",
      "U+2004", "U+2005", "U+2006", "U+2007", "U+2008", "U+2009", "U+200A",
      "U+2028", "U+2029", "U+202F", "U+205F", "U+3000" }

\* s without its leading and trailing characters that are in chars
strip_chars(s, chars) ==
    With(s, LAMBDA t : With({ i \in 1..Len(t) : t[i] \notin chars }, LAMBDA keep :
        IF keep = {} THEN <<>> ELSE SubSeq(t, MinOf(keep), MaxOf(keep))))

\* str.strip()
strip(s) == strip_chars(s, Whitespace)

\* the k-th smallest member of a set of integers
Kth(P, k) == CHOOSE i \in P : Cardinality({ j \in P : j < i }) = k - 1

\* str.split(): the maximal runs of non-whitespace characters
split(s) ==
    With(s, LAMBDA t :
    With({ i \in 1..Len(t) : t[i] \notin Whitespace }, LAMBDA In :
    With({ i \in In : i - 1 \notin In }, LAMBDA Starts :
    With({ i \in In : i + 1 \notin In }, LAMBDA Ends :
        [ k \in 1..Cardinality(Starts) |-> SubSeq(t, Kth(Starts, k), Kth(Ends, k)) ]))))

\* str.split(sep) for a one-character sep: empty pieces are kept
split_on(s, sep) ==
    With(s, LAMBDA t :
    With({ 0, Len(t) + 1 } \cup { i \in 1..Len(t) : t[i] = sep }, LAMBDA Cut :
        [ k \in 1..(Cardinality(Cut) - 1) |->
            SubSeq(t, Kth(Cut, k) + 1, Kth(Cut, k + 1) - 1) ]))

RECURSIVE join(_, _)
\* sep.join(parts)
join(sep, parts) ==
    With(parts, LAMBDA ps :
        IF ps = <<>> THEN <<>>
        ELSE IF Len(ps) = 1 THEN ps[1]
        ELSE ps[1] \o sep \o join(sep, Tail(ps)))

\* s[:-1]
AllButLast(s) == SubSeq(s, 1, Len(s) - 1)

\* format spec "<w": left-aligned in width w, filled with spaces
LeftAlign(s, w) == With(s, LAMBDA t : t \o [i \in 1..(w - Len(t)) |-> " "])

\* format spec "c>w": right-aligned in width w, filled with c
RightAlign(s, c, w) == With(s, LAMBDA t : [i \in 1..(w - Len(t)) |-> c] \o t)

----------------------------------------------------------------------------
(* Natural numbers of any size: sequences of limbs in base 2^15, the least *)
(* significant limb first, without a most significant limb of 0.           *)

BASE == 2 ^ 15

Max2(a, b) == IF a >= b THEN a ELSE b

RECURSIVE BigTrim(_)
\* the limbs x without the most significant limbs that are 0
BigTrim(x) ==
    With(x, LAMBDA a :
        IF a = <<>> \/ a[Len(a)] # 0 THEN a ELSE BigTrim(SubSeq(a, 1, Len(a) - 1)))

\* the natural number n < 2^31
BigOfInt(n) == BigTrim(<<n % BASE, (n \div BASE) % BASE, n \div (BASE * BASE)>>)

\* the limbs x, followed by limbs 0 up to length n
PadLimbs(x, n) == With(x, LAMBDA a : a \o [i \in 1..(n - Len(a)) |-> 0])

RECURSIVE MulAddLimbs(_, _, _)
\* for limbs x # <<>>: the Len(x) low limbs of x * k + c, and what is carried
\* out of them; the low half first, its carry goes into the high half
MulAddLimbs(x, k, c) ==
    With(x, LAMBDA a :
        IF Len(a) = 1
        THEN With(a[1] * k + c, LAMBDA t : [limbs |-> <<t % BASE>>, carry |-> t \div BASE])
        ELSE With(MulAddLimbs(SubSeq(a, 1, Len(a) \div 2), k, c), LAMBDA lo :
             With(MulAddLimbs(SubSeq(a, Len(a) \div 2 + 1, Len(a)), k, lo.carry), LAMBDA hi :
                 [limbs |-> lo.limbs \o hi.limbs, carry |-> hi.carry])))

\* x * k + c, for 1 <= k < BASE and 0 <= c < BASE
BigMulAdd(x, k, c) ==
    With(x, LAMBDA a :
        IF a = <<>> THEN BigOfInt(c)
        ELSE With(MulAddLimbs(a, k, c), LAMBDA r : r.limbs \o BigOfInt(r.carry)))

RECURSIVE DivModLimbs(_, _, _)
\* for limbs x # <<>> and r < d: the limbs of the quotient of
\* r * BASE^Len(x) + x by d, and the remainder; the high half first, its
\* remainder goes into the low half
DivModLimbs(x, d, r) ==
    With(x, LAMBDA a :
        IF Len(a) = 1
        THEN With(r * BASE + a[1], LAMBDA t : [limbs |-> <<t \div d>>, r |-> t % d])
        ELSE With(DivModLimbs(SubSeq(a, Len(a) \div 2 + 1, Len(a)), d, r), LAMBDA hi :
             With(DivModLimbs(SubSeq(a, 1, Len(a) \div 2), d, hi.r), LAMBDA lo :
                 [limbs |-> lo.limbs \o hi.limbs, r |-> lo.r])))

\* quotient and remainder of x by d, for 1 <= d < BASE
BigDivMod(x, d) ==
    With(x, LAMBDA a :
        IF a = <<>> THEN [q |-> <<>>, r |-> 0]
        ELSE With(DivModLimbs(a, d, 0), LAMBDA dm : [q |-> BigTrim(dm.limbs), r |-> dm.r]))

RECURSIVE AddLimbs(_, _, _, _)
\* for limbs x # <<>> and y of the same length, sign 1 or -1 and c of -1, 0
\* or 1: the Len(x) low limbs of x + sign * y + c, and what is carried out
\* of them (-1: borrowed)
AddLimbs(x, y, sign, c) ==
    With(x, LAMBDA a : With(y, LAMBDA b :
        IF Len(a) = 1
        THEN With(a[1] + sign * b[1] + c, LAMBDA t :
                 [limbs |-> <<t % BASE>>, carry |-> IF t < 0 THEN -1 ELSE t \div BASE])
        ELSE With(AddLimbs(SubSeq(a, 1, Len(a) \div 2), SubSeq(b, 1, Len(a) \div 2),
                           sign, c), LAMBDA lo :
             With(AddLimbs(SubSeq(a, Len(a) \div 2 + 1, Len(a)),
                           SubSeq(b, Len(a) \div 2 + 1, Len(a)), sign, lo.carry), LAMBDA hi :
                 [limbs |-> lo.limbs \o hi.limbs, carry |-> hi.carry]))))

\* x + y
BigAdd(x, y) ==
    With(x, LAMBDA a : With(y, LAMBDA b : With(Max2(Len(a), Len(b)), LAMBDA n :
        IF n = 0 THEN <<>>
        ELSE With(AddLimbs(PadLimbs(a, n), PadLimbs(b, n), 1, 0), LAMBDA r :
                 r.limbs \o BigOfInt(r.carry)))))

\* whether x < y, and the distance between x and y
BigDiff(x, y) ==
    With(x, LAMBDA a : With(y, LAMBDA b : With(Max2(Len(a), Len(b)), LAMBDA n :
        IF n = 0 THEN [less |-> FALSE, abs |-> <<>>]
        ELSE With(AddLimbs(PadLimbs(a, n), PadLimbs(b, n), -1, 0), LAMBDA r :
                 IF r.carry = 0 THEN [less |-> FALSE, abs |-> BigTrim(r.limbs)]
                 ELSE [less |-> TRUE,
                       abs |-> BigTrim(AddLimbs(PadLimbs(b, n), PadLimbs(a, n), -1, 0).limbs)]))))

BigOdd(x) == With(x, LAMBDA a : a # <<>> /\ a[1] % 2 = 1)

\* the number of binary digits of x
BitLen(x) ==
    With(x, LAMBDA a :
        IF a = <<>> THEN 0
        ELSE 15 * (Len(a) - 1)
             + (CHOOSE n \in 1..15 : 2 ^ (n - 1) <= a[Len(a)] /\ a[Len(a)] < 2 ^ n))

\* x * 2^k
BigShl(x, k) ==
    With(x, LAMBDA a : With(k, LAMBDA n :
        IF a = <<>> THEN <<>>
        ELSE [i \in 1..(n \div 15) |-> 0] \o BigMulAdd(a, 2 ^ (n % 15), 0)))

\* x \div 2^k, and whether a binary digit 1 was dropped
BigShr(x, k) ==
    With(x, LAMBDA a : With(k, LAMBDA n :
        IF n \div 15 >= Len(a) THEN [q |-> <<>>, sticky |-> a # <<>>]
        ELSE With(BigDivMod(SubSeq(a, n \div 15 + 1, Len(a)), 2 ^ (n % 15)), LAMBDA dm :
                 [q |-> dm.q, sticky |-> dm.r # 0 \/ \E i \in 1..(n \div 15) : a[i] # 0])))

RECURSIVE BigMulPow5(_, _)
\* x * 5^k: 5^6 < BASE, and a larger power is the product of two smaller ones
BigMulPow5(x, k) ==
    With(k, LAMBDA n :
        IF n <= 6 THEN BigMulAdd(x, 5 ^ n, 0)
        ELSE With(BigMulPow5(x, n \div 2), LAMBDA y : BigMulPow5(y, n - n \div 2)))

RECURSIVE BigDivPow5(_, _)
\* x \div 5^k, and whether the division left a remainder
BigDivPow5(x, k) ==
    With(k, LAMBDA n :
        IF n <= 6 THEN With(BigDivMod(x, 5 ^ n), LAMBDA dm : [q |-> dm.q, sticky |-> dm.r # 0])
        ELSE With(BigDivPow5(x, n \div 2), LAMBDA hi :
             With(BigDivPow5(hi.q, n - n \div 2), LAMBDA lo :
                 [q |-> lo.q, sticky |-> hi.sticky \/ lo.sticky])))

\* (x + f) / 2^sh rounded to the nearest natural number, half to even, for
\* sh >= 1; sticky says that 0 < f < 1, else f = 0
RoundHalfEven(x, sh, sticky) ==
    With(BigShr(x, sh - 1), LAMBDA s1 : With(BigShr(s1.q, 1).q, LAMBDA q :
        IF BigOdd(s1.q) /\ (sticky \/ s1.sticky \/ BigOdd(q))
        THEN BigAdd(q, <<1>>)
        ELSE q))

----------------------------------------------------------------------------
(* float: IEEE 754 binary64.  A finite float is (-1)^neg * m * 2^e with    *)
(* 2^52 <= m < 2^53 and -1074 <= e <= 971, or m < 2^52 and e = -1074       *)
(* (subnormal numbers and the two zeros).                                  *)

Finite(neg, m, e) == [cls |-> "finite", neg |-> neg, m |-> m, e |-> e]
Zero(neg) == Finite(neg, <<>>, -1074)
Inf(neg) == [cls |-> "inf", neg |-> neg, m |-> <<>>, e |-> 0]
NaN == [cls |-> "nan", neg |-> FALSE, m |-> <<>>, e |-> 0]

\* the float (-1)^neg * m * 2^e for m < 2^54: m is brought below 2^53 (its
\* last binary digit is 0 when it is not), and a value too large is inf
Normal(neg, m, e) ==
    With(m, LAMBDA r : With(IF BitLen(r) = 54 THEN 1 ELSE 0, LAMBDA up :
        IF r = <<>> THEN Zero(neg)
        ELSE IF e + up > 971 THEN Inf(neg)
        ELSE Finite(neg, BigShr(r, up).q, e + up)))

\* the float nearest to (-1)^neg * (x + f) * 2^e2, half to even; sticky says
\* that 0 < f < 1 (and then x has at least 55 binary digits), else f = 0
ToDouble(neg, x, e2, sticky) ==
    With(x, LAMBDA n : With(Max2(e2 + BitLen(n) - 53, -1074), LAMBDA e1 :
        IF e1 <= e2 THEN Normal(neg, BigShl(n, e2 - e1), e1)
        ELSE Normal(neg, RoundHalfEven(n, e1 - e2, sticky), e1)))

\* -x
FNeg(x) == With(x, LAMBDA a : IF a.cls = "nan" THEN a ELSE [a EXCEPT !.neg = ~a.neg])

\* the sum of the finite floats a and b, neither of them 0
AddFinite(a, b) ==
    With(IF a.e <= b.e THEN a.e ELSE b.e, LAMBDA e0 :
    With(BigShl(a.m, a.e - e0), LAMBDA p : With(BigShl(b.m, b.e - e0), LAMBDA q :
        IF a.neg = b.neg THEN ToDouble(a.neg, BigAdd(p, q), e0, FALSE)
        ELSE With(BigDiff(p, q), LAMBDA d :
                 IF d.abs = <<>> THEN Zero(FALSE)
                 ELSE ToDouble(IF d.less THEN b.neg ELSE a.neg, d.abs, e0, FALSE)))))

\* x + y
FAdd(x, y) ==
    With(x, LAMBDA a : With(y, LAMBDA b :
        IF a.cls = "nan" \/ b.cls = "nan" THEN NaN
        ELSE IF a.cls = "inf" THEN (IF b.cls = "inf" /\ b.neg # a.neg THEN NaN ELSE a)
        ELSE IF b.cls = "inf" THEN b
        ELSE IF a.m = <<>> /\ b.m = <<>> THEN Zero(a.neg /\ b.neg)
        ELSE IF a.m = <<>> THEN b
        ELSE IF b.m = <<>> THEN a
        ELSE AddFinite(a, b)))

\* x - y
FSub(x, y) == FAdd(x, FNeg(y))

\* x / 60: 60 = 15 * 2^2
FDiv60(x) ==
    With(x, LAMBDA a :
        IF a.cls # "finite" THEN a
        ELSE With(BigDivMod(BigShl(a.m, 60), 15), LAMBDA dm :
                 ToDouble(a.neg, dm.q, a.e - 62, dm.r # 0)))

\* the decimal digits of Unicode (category Nd) outside ASCII, one row for each
\* run of ten: a row holds the digits of the values 0 to 9, in this order
DecimalDigits ==
    <<
       <<"U+0660", "U+0661", "U+0662", "U+0663", "U+0664", "U+0665", "U+0666", "U+0667", "U+0668", "U+0669">>,
       <<"U+06F0", "U+06F1", "U+06F2", "U+06F3", "U+06F4", "U+06F5", "U+06F6", "U+06F7", "U+06F8", "U+06F9">>,
       <<"U+07C0", "U+07C1", "U+07C2", "U+07C3", "U+07C4", "U+07C5", "U+07C6", "U+07C7", "U+07C8", "U+07C9">>,
       <<"U+0966", "U+0967", "U+0968", "U+0969", "U+096A", "U+096B", "U+096C", "U+096D", "U+096E", "U+096F">>,
       <<"U+09E6", "U+09E7", "U+09E8", "U+09E9", "U+09EA", "U+09EB", "U+09EC", "U+09ED", "U+09EE", "U+09EF">>,
       <<"U+0A66", "U+0A67", "U+0A68", "U+0A69", "U+0A6A", "U+0A6B", "U+0A6C", "U+0A6D", "U+0A6E", "U+0A6F">>,
       <<"U+0AE6", "U+0AE7", "U+0AE8", "U+0AE9", "U+0AEA", "U+0AEB", "U+0AEC", "U+0AED", "U+0AEE", "U+0AEF">>,
       <<"U+0B66", "U+0B67", "U+0B68", "U+0B69", "U+0B6A", "U+0B6B", "U+0B6C", "U+0B6D", "U+0B6E", "U+0B6F">>,
       <<"U+0BE6", "U+0BE7", "U+0BE8", "U+0BE9", "U+0BEA", "U+0BEB", "U+0BEC", "U+0BED", "U+0BEE", "U+0BEF">>,
       <<"U+0C66", "U+0C67", "U+0C68", "U+0C69", "U+0C6A", "U+0C6B", "U+0C6C", "U+0C6D", "U+0C6E", "U+0C6F">>,
       <<"U+0CE6", "U+0CE7", "U+0CE8", "U+0CE9", "U+0CEA", "U+0CEB", "U+0CEC", "U+0CED", "U+0CEE", "U+0CEF">>,
       <<"U+0D66", "U+0D67", "U+0D68", "U+0D69", "U+0D6A", "U+0D6B", "U+0D6C", "U+0D6D", "U+0D6E", "U+0D6F">>,
       <<"U+0DE6", "U+0DE7", "U+0DE8", "U+0DE9", "U+0DEA", "U+0DEB", "U+0DEC", "U+0DED", "U+0DEE", "U+0DEF">>,
       <<"U+0E50", "U+0E51", "U+0E52", "U+0E53", "U+0E54", "U+0E55", "U+0E56", "U+0E57", "U+0E58", "U+0E59">>,
       <<"U+0ED0", "U+0ED1", "U+0ED2", "U+0ED3", "U+0ED4", "U+0ED5", "U+0ED6", "U+0ED7", "U+0ED8", "U+0ED9">>,
       <<"U+0F20", "U+0F21", "U+0F22", "U+0F23", "U+0F24", "U+0F25", "U+0F26", "U+0F27", "U+0F28", "U+0F29">>,
       <<"U+1040", "U+1041", "U+1042", "U+1043", "U+1044", "U+1045", "U+1046", "U+1047", "U+1048", "U+1049">>,
       <<"U+1090", "U+1091", "U+1092", "U+1093", "U+1094", "U+1095", "U+1096", "U+1097", "U+1098", "U+1099">>,
       <<"U+17E0", "U+17E1", "U+17E2", "U+17E3", "U+17E4", "U+17E5", "U+17E6", "U+17E7", "U+17E8", "U+17E9">>,
       <<"U+1810", "U+1811", "U+1812", "U+1813", "U+1814", "U+1815", "U+1816", "U+1817", "U+1818", "U+1819">>,
       <<"U+1946", "U+1947", "U+1948", "U+1949", "U+194A", "U+194B", "U+194C", "U+194D", "U+194E", "U+194F">>,
       <<"U+19D0", "U+19D1", "U+19D2", "U+19D3", "U+19D4", "U+19D5", "U+19D6", "U+19D7", "U+19D8", "U+19D9">>,
       <<"U+1A80", "U+1A81", "U+1A82", "U+1A83", "U+1A84", "U+1A85", "U+1A86", "U+1A87", "U+1A88", "U+1A89">>,
       <<"U+1A90", "U+1A91", "U+1A92", "U+1A93", "U+1A94", "U+1A95", "U+1A96", "U+1A97", "U+1A98", "U+1A99">>,
       <<"U+1B50", "U+1B51", "U+1B52", "U+1B53", "U+1B54", "U+1B55", "U+1B56", "U+1B57", "U+1B58", "U+1B59">>,
       <<"U+1BB0", "U+1BB1", "U+1BB2", "U+1BB3", "U+1BB4", "U+1BB5", "U+1BB6", "U+1BB7", "U+1BB8", "U+1BB9">>,
       <<"U+1C40", "U+1C41", "U+1C42", "U+1C43", "U+1C44", "U+1C45", "U+1C46", "U+1C47", "U+1C48", "U+1C49">>,
       <<"U+1C50", "U+1C51", "U+1C52", "U+1C53", "U+1C54", "U+1C55", "U+1C56", "U+1C57", "U+1C58", "U+1C59">>,
       <<"U+A620", "U+A621", "U+A622", "U+A623", "U+A624", "U+A625", "U+A626", "U+A627", "U+A628", "U+A629">>,
       <<"U+A8D0", "U+A8D1", "U+A8D2", "U+A8D3", "U+A8D4", "U+A8D5", "U+A8D6", "U+A8D7", "U+A8D8", "U+A8D9">>,
       <<"U+A900", "U+A901", "U+A902", "U+A903", "U+A904", "U+A905", "U+A906", "U+A907", "U+A908", "U+A909">>,
       <<"U+A9D0", "U+A9D1", "U+A9D2", "U+A9D3", "U+A9D4", "U+A9D5", "U+A9D6", "U+A9D7", "U+A9D8", "U+A9D9">>,
       <<"U+A9F0", "U+A9F1", "U+A9F2", "U+A9F3", "U+A9F4", "U+A9F5", "U+A9F6", "U+A9F7", "U+A9F8", "U+A9F9">>,
       <<"U+AA50", "U+AA51", "U+AA52", "U+AA53", "U+AA54", "U+AA55", "U+AA56", "U+AA57", "U+AA58", "U+AA59">>,
       <<"U+ABF0", "U+ABF1", "U+ABF2", "U+ABF3", "U+ABF4", "U+ABF5", "U+ABF6", "U+ABF7", "U+ABF8", "U+ABF9">>,
       <<"U+FF10", "U+FF11", "U+FF12", "U+FF13", "U+FF14", "U+FF15", "U+FF16", "U+FF17", "U+FF18", "U+FF19">>,
       <<"U+104A0", "U+104A1", "U+104A2", "U+104A3", "U+104A4", "U+104A5", "U+104A6", "U+104A7", "U+104A8", "U+104A9">>,
       <<"U+10D30", "U+10D31", "U+10D32", "U+10D33", "U+10D34", "U+10D35", "U+10D36", "U+10D37", "U+10D38", "U+10D39">>,
       <<"U+11066", "U+11067", "U+11068", "U+11069", "U+1106A", "U+1106B", "U+1106C", "U+1106D", "U+1106E", "U+1106F">>,
       <<"U+110F0", "U+110F1", "U+110F2", "U+110F3", "U+110F4", "U+110F5", "U+110F6", "U+110F7", "U+110F8", "U+110F9">>,
       <<"U+11136", "U+11137", "U+11138", "U+11139", "U+1113A", "U+1113B", "U+1113C", "U+1113D", "U+1113E", "U+1113F">>,
       <<"U+111D0", "U+111D1", "U+111D2", "U+111D3", "U+111D4", "U+111D5", "U+111D6", "U+111D7", "U+111D8", "U+111D9">>,
       <<"U+112F0", "U+112F1", "U+112F2", "U+112F3", "U+112F4", "U+112F5", "U+112F6", "U+112F7", "U+112F8", "U+112F9">>,
       <<"U+11450", "U+11451", "U+11452", "U+11453", "U+11454", "U+11455", "U+11456", "U+11457", "U+11458", "U+11459">>,
       <<"U+114D0", "U+114D1", "U+114D2", "U+114D3", "U+114D4", "U+114D5", "U+114D6", "U+114D7", "U+114D8", "U+114D9">>,
       <<"U+11650", "U+11651", "U+11652", "U+11653", "U+11654", "U+11655", "U+11656", "U+11657", "U+11658", "U+11659">>,
       <<"U+116C0", "U+116C1", "U+116C2", "U+116C3", "U+116C4", "U+116C5", "U+116C6", "U+116C7", "U+116C8", "U+116C9">>,
       <<"U+11730", "U+11731", "U+11732", "U+11733", "U+11734", "U+11735", "U+11736", "U+11737", "U+11738", "U+11739">>,
       <<"U+118E0", "U+118E1", "U+118E2", "U+118E3", "U+118E4", "U+118E5", "U+118E6", "U+118E7", "U+118E8", "U+118E9">>,
       <<"U+11950", "U+11951", "U+11952", "U+11953", "U+11954", "U+11955", "U+11956", "U+11957", "U+11958", "U+11959">>,
       <<"U+11C50", "U+11C51", "U+11C52", "U+11C53", "U+11C54", "U+11C55", "U+11C56", "U+11C57", "U+11C58", "U+11C59">>,
       <<"U+11D50", "U+11D51", "U+11D52", "U+11D53", "U+11D54", "U+11D55", "U+11D56", "U+11D57", "U+11D58", "U+11D59">>,
       <<"U+11DA0", "U+11DA1", "U+11DA2", "U+11DA3", "U+11DA4", "U+11DA5", "U+11DA6", "U+11DA7", "U+11DA8", "U+11DA9">>,
       <<"U+16A60", "U+16A61", "U+16A62", "U+16A63", "U+16A64", "U+16A65", "U+16A66", "U+16A67", "U+16A68", "U+16A69">>,
       <<"U+16AC0", "U+16AC1", "U+16AC2", "U+16AC3", "U+16AC4", "U+16AC5", "U+16AC6", "U+16AC7", "U+16AC8", "U+16AC9">>,
       <<"U+16B50", "U+16B51", "U+16B52", "U+16B53", "U+16B54", "U+16B55", "U+16B56", "U+16B57", "U+16B58", "U+16B59">>,
       <<"U+1D7CE", "U+1D7CF", "U+1D7D0", "U+1D7D1", "U+1D7D2", "U+1D7D3", "U+1D7D4", "U+1D7D5", "U+1D7D6", "U+1D7D7">>,
       <<"U+1D7D8", "U+1D7D9", "U+1D7DA", "U+1D7DB", "U+1D7DC", "U+1D7DD", "U+1D7DE", "U+1D7DF", "U+1D7E0", "U+1D7E1">>,
       <<"U+1D7E2", "U+1D7E3", "U+1D7E4", "U+1D7E5", "U+1D7E6", "U+1D7E7", "U+1D7E8", "U+1D7E9", "U+1D7EA", "U+1D7EB">>,
       <<"U+1D7EC", "U+1D7ED", "U+1D7EE", "U+1D7EF", "U+1D7F0", "U+1D7F1", "U+1D7F2", "U+1D7F3", "U+1D7F4", "U+1D7F5">>,
       <<"U+1D7F6", "U+1D7F7", "U+1D7F8", "U+1D7F9", "U+1D7FA", "U+1D7FB", "U+1D7FC", "U+1D7FD", "U+1D7FE", "U+1D7FF">>,
       <<"U+1E140", "U+1E141", "U+1E142", "U+1E143", "U+1E144", "U+1E145", "U+1E146", "U+1E147", "U+1E148", "U+1E149">>,
       <<"U+1E2F0", "U+1E2F1", "U+1E2F2", "U+1E2F3", "U+1E2F4", "U+1E2F5", "U+1E2F6", "U+1E2F7", "U+1E2F8", "U+1E2F9">>,
       <<"U+1E950", "U+1E951", "U+1E952", "U+1E953", "U+1E954", "U+1E955", "U+1E956", "U+1E957", "U+1E958", "U+1E959">>,
       <<"U+1FBF0", "U+1FBF1", "U+1FBF2", "U+1FBF3", "U+1FBF4", "U+1FBF5", "U+1FBF6", "U+1FBF7", "U+1FBF8", "U+1FBF9">> >>

NonAsciiDigits == { DecimalDigits[r][k] : r \in 1..Len(DecimalDigits), k \in 1..10 }

\* the whitespace outside ASCII
NonAsciiWhitespace ==
    Whitespace \ { " ", "\t", "\n", "\r", "\f", "U+000B", "U+001C", "U+001D", "U+001E", "U+001F" }

\* the ASCII whitespace float() drops from both ends
FloatWhitespace == { " ", "\t", "\n", "\r", "\f", "U+000B" }

Digits == {"0", "1", "2", "3", "4", "5", "6", "7", "8", "9"}

DigitVal(c) ==
    CASE c = "0" -> 0 [] c = "1" -> 1 [] c = "2" -> 2 [] c = "3" -> 3
      [] c = "4" -> 4 [] c = "5" -> 5 [] c = "6" -> 6 [] c = "7" -> 7
      [] c = "8" -> 8 [] c = "9" -> 9

DigitChar(d) == <<"0", "1", "2", "3", "4", "5", "6", "7", "8", "9">>[d + 1]

IsDigit(c) == c \in Digits

RECURSIVE NatOf(_)
\* the number a short run of digits denotes; 0 for the empty run
NatOf(s) ==
    With(s, LAMBDA ds :
        IF ds = <<>> THEN 0 ELSE 10 * NatOf(AllButLast(ds)) + DigitVal(ds[Len(ds)]))

RECURSIVE AppendDigits(_, _)
\* x * 10^Len(s) + the number the run of digits s denotes
AppendDigits(x, s) ==
    With(x, LAMBDA a : With(s, LAMBDA ds :
        IF Len(ds) <= 4 THEN BigMulAdd(a, 10 ^ Len(ds), NatOf(ds))
        ELSE AppendDigits(AppendDigits(a, SubSeq(ds, 1, Len(ds) \div 2)),
                          SubSeq(ds, Len(ds) \div 2 + 1, Len(ds)))))

\* the number a run of digits denotes
BigOfDigits(s) == AppendDigits(<<>>, s)

\* s without its leading "0"s
DropZeros(s) ==
    With(s, LAMBDA ds : With({ i \in 1..Len(ds) : ds[i] # "0" }, LAMBDA nz :
        IF nz = {} THEN <<>> ELSE SubSeq(ds, MinOf(nz), Len(ds))))

\* digits, with single underscores between digits allowed
IsDigitPart(s) ==
    With(s, LAMBDA ds :
        /\ ds # <<>>
        /\ \A i \in 1..Len(ds) : ds[i] \in Digits \cup {"_"}
        /\ ds[1] # "_" /\ ds[Len(ds)] # "_"
        /\ \A i \in 1..(Len(ds) - 1) : ~(ds[i] = "_" /\ ds[i + 1] = "_"))

\* what float() makes of a character before it reads the text: a decimal
\* digit outside ASCII becomes the ASCII digit of its value, whitespace
\* outside ASCII a space, any other character outside ASCII "?"
AsciiOf(c) ==
    IF c \in NonAsciiDigits
    THEN DigitChar(CHOOSE d \in 0..9 : \E r \in 1..Len(DecimalDigits) : DecimalDigits[r][d + 1] = c)
    ELSE IF c \in NonAsciiWhitespace THEN " "
    ELSE IF c \in {DEGREE_SIGN, PRIME} THEN "?"
    ELSE c

LowerCase(c) ==
    CASE c = "A" -> "a" [] c = "F" -> "f" [] c = "I" -> "i" [] c = "N" -> "n"
      [] c = "T" -> "t" [] c = "Y" -> "y" [] OTHER -> c

\* the float nearest to (-1)^neg * digits * 10^p
DecimalToDouble(neg, digits, p) ==
    With(DropZeros(digits), LAMBDA sig : With(p, LAMBDA p10 :
        IF sig = <<>> THEN Zero(neg)
        ELSE IF Len(sig) + p10 > 310 THEN Inf(neg)      \* at least 10^310
        ELSE IF Len(sig) + p10 < -330 THEN Zero(neg)    \* less than 10^-330
        ELSE With(BigOfDigits(sig), LAMBDA n :
            IF p10 >= 0 THEN ToDouble(neg, BigMulPow5(n, p10), p10, FALSE)
            ELSE With(BigShl(n, 56 - 3 * p10), LAMBDA num :
                 With(BigDivPow5(num, 0 - p10), LAMBDA dq :
                     ToDouble(neg, dq.q, 4 * p10 - 56, dq.sticky))))))

\* the exponent -mag or mag of the digits ds, no larger than 10^6
Exponent(negative, ds) ==
    With(IF Len(ds) > 6 THEN 10 ^ 6 ELSE NatOf(ds), LAMBDA mag :
        IF negative THEN 0 - mag ELSE mag)

\* a decimal number without its sign: the mantissa digits[.[digits]] or
\* .digits, and the exponent: nothing, or e[sign]digits
Decimal(neg, mant, expo) ==
    With(split_on(mant, "."), LAMBDA pieces :
    With(IF Len(pieces) = 2 THEN pieces[2] ELSE <<>>, LAMBDA fp :
    With(IF Len(expo) >= 2 /\ expo[2] \in {"+", "-"}
         THEN SubSeq(expo, 3, Len(expo)) ELSE SubSeq(expo, 2, Len(expo)), LAMBDA edigits :
        IF /\ Len(pieces) <= 2
           /\ pieces[1] = <<>> \/ IsDigitPart(pieces[1])
           /\ fp = <<>> \/ IsDigitPart(fp)
           /\ pieces[1] # <<>> \/ fp # <<>>
           /\ expo = <<>> \/ IsDigitPart(edigits)
        THEN Return(DecimalToDouble(neg,
                 SelectSeq(pieces[1], IsDigit) \o SelectSeq(fp, IsDigit),
                 Exponent(Len(expo) >= 2 /\ expo[2] = "-",
                          DropZeros(SelectSeq(edigits, IsDigit)))
                     - Len(SelectSeq(fp, IsDigit))))
        ELSE Raise("ValueError"))))

\* float(s) without the sign of s: "inf", "infinity" or "nan" in any case,
\* or a decimal number, whose exponent starts at the first "e" or "E"
Unsigned(neg, s) ==
    With(s, LAMBDA body :
    With(MinOf({ i \in 1..Len(body) : body[i] \in {"e", "E"} } \cup {Len(body) + 1}),
         LAMBDA epos :
        IF [i \in 1..Len(body) |-> LowerCase(body[i])]
               \in { <<"i", "n", "f">>, <<"i", "n", "f", "i", "n", "i", "t", "y">> }
        THEN Return(Inf(neg))
        ELSE IF [i \in 1..Len(body) |-> LowerCase(body[i])] = <<"n", "a", "n">>
        THEN Return(NaN)
        ELSE Decimal(neg, SubSeq(body, 1, epos - 1), SubSeq(body, epos, Len(body)))))

\* float(s) for a str s: the characters outside ASCII are replaced,
\* surrounding whitespace is dropped, then a sign and a number.  The value
\* is the nearest float.
float(s) ==
    With(s, LAMBDA u :
    With(strip_chars([i \in 1..Len(u) |-> AsciiOf(u[i])], FloatWhitespace), LAMBDA t :
        IF t # <<>> /\ Head(t) \in {"+", "-"}
        THEN Unsigned(Head(t) = "-", Tail(t))
        ELSE Unsigned(FALSE, t)))

RECURSIVE NatChars(_)
\* the decimal digits of n
NatChars(n) ==
    With(n, LAMBDA k :
        IF k < 10 THEN <<DigitChar(k)>> ELSE NatChars(k \div 10) \o <<DigitChar(k % 10)>>)

\* the decimal digits of x, four at a time: digits 4i+1 to 4i+4 from the
\* right are those of (x \div 10^4i) % 10^4, and 10^4i = 2^4i * 5^4i
BigChars(x) ==
    With(x, LAMBDA a :
    With([i \in 0..(BitLen(a) \div 13) |->
             RightAlign(NatChars(BigDivMod(BigShr(BigDivPow5(a, 4 * i).q, 4 * i).q, 10000).r),
                        "0", 4)], LAMBDA chunk :
    With(DropZeros([j \in 1..(4 * (BitLen(a) \div 13 + 1)) |->
             chunk[BitLen(a) \div 13 - (j - 1) \div 4][((j - 1) % 4) + 1]]), LAMBDA ds :
        IF ds = <<>> THEN <<"0">> ELSE ds)))

\* the digits of t thousandths: units, ".", three decimals
Thousandths(t) ==
    With(BigDivMod(t, 1000), LAMBDA dm :
        BigChars(dm.q) \o <<".">> \o RightAlign(NatChars(dm.r), "0", 3))

\* format spec ".3f": the exact value of the float rounded to three
\* decimals, half to even
Fixed3(x) ==
    With(x, LAMBDA a :
        IF a.cls = "nan" THEN <<"n", "a", "n">>
        ELSE (IF a.neg THEN <<"-">> ELSE <<>>) \o
             (IF a.cls = "inf" THEN <<"i", "n", "f">>
              ELSE IF a.e >= 0 THEN Thousandths(BigMulAdd(BigShl(a.m, a.e), 1000, 0))
              ELSE Thousandths(RoundHalfEven(BigMulAdd(a.m, 1000, 0), 0 - a.e, FALSE))))

\* format spec ">6.3f"
Fixed3w6(x) == RightAlign(Fixed3(x), " ", 6)

\* twice m * 2^e * 10^j, rounded down, and whether anything was dropped
TwiceScaled(m, e, j) ==
    With(e + 1 + j, LAMBDA sh :
        IF j >= 0
        THEN With(BigMulPow5(m, j), LAMBDA n :
                 IF sh >= 0 THEN [q |-> BigShl(n, sh), sticky |-> FALSE]
                 ELSE BigShr(n, 0 - sh))
        ELSE IF sh >= 0 THEN With(BigShl(m, sh), LAMBDA n : BigDivPow5(n, 0 - j))
        ELSE With(BigShr(m, 0 - sh), LAMBDA a : With(BigDivPow5(a.q, 0 - j), LAMBDA b :
                 [q |-> b.q, sticky |-> a.sticky \/ b.sticky])))

\* where the decimal point of x = m * 2^e > 0 is: 10^(decpt - 1) <= x < 10^decpt.
\* x has BitLen(m) + e binary digits before the point, and log10(2) is 0.30103
DecPt(m, e) ==
    With(((BitLen(m) + e - 1) * 30103) \div 100000 + 1, LAMBDA g :
        IF Len(BigChars(BigShr(TwiceScaled(m, e, 17 - g).q, 1).q)) > 17 THEN g + 1 ELSE g)

\* whether float() reads the float m * 2^e from the digits of c with the
\* exponent p
ReadsBack(c, p, m, e) == DecimalToDouble(FALSE, BigChars(c), p) = Finite(FALSE, m, e)

\* the number of n digits from which float() reads m * 2^e back, the nearer
\* one of the two next to it first (of two equally near the even one): <<c>>,
\* or <<>> when there is none
ShortestAt(m, e, decpt, n) ==
    With(TwiceScaled(m, e, n - decpt), LAMBDA t :
    With(BigShr(t.q, 1).q, LAMBDA lo : With(BigAdd(lo, <<1>>), LAMBDA hi :
    With(IF BigOdd(t.q) /\ (t.sticky \/ BigOdd(lo)) THEN <<hi, lo>>
         ELSE IF BigOdd(t.q) \/ t.sticky THEN <<lo, hi>>
         ELSE <<lo>>, LAMBDA cands :
    With({ k \in 1..Len(cands) : ReadsBack(cands[k], decpt - n, m, e) }, LAMBDA ok :
        IF ok = {} THEN <<>> ELSE <<cands[MinOf(ok)]>>)))))

RECURSIVE FewestDigits(_, _, _, _, _)
\* the least n of lo..hi for which there is a number of n digits that reads
\* back as m * 2^e, when there is one of hi digits: one of n digits gives
\* one of n + 1 digits
FewestDigits(m, e, decpt, lo, hi) ==
    IF lo = hi THEN lo
    ELSE With((lo + hi) \div 2, LAMBDA mid :
             IF ShortestAt(m, e, decpt, mid) # <<>>
             THEN FewestDigits(m, e, decpt, lo, mid)
             ELSE FewestDigits(m, e, decpt, mid + 1, hi))

\* the shortest digits that read back as m * 2^e > 0, without zeros at
\* their end, and where the decimal point is: 0.digits * 10^decpt.  17
\* digits are always enough.
Shortest(m, e) ==
    With(DecPt(m, e), LAMBDA decpt :
    With(FewestDigits(m, e, decpt, 1, 17), LAMBDA n :
    With(BigChars(ShortestAt(m, e, decpt, n)[1]), LAMBDA ds :
        [digits |-> SubSeq(ds, 1, MaxOf({ i \in 1..Len(ds) : ds[i] # "0" })),
         decpt |-> decpt + Len(ds) - n])))

\* the digits ds with the decimal point at decpt as repr writes them: with an
\* exponent when decpt <= -4 or decpt > 16, else with ".0" after a whole number
ReprDigits(ds, decpt) ==
    IF decpt <= -4 \/ decpt > 16
    THEN <<ds[1]>> \o (IF Len(ds) > 1 THEN <<".">> \o Tail(ds) ELSE <<>>) \o <<"e">>
         \o (IF decpt < 1 THEN <<"-">> \o RightAlign(NatChars(1 - decpt), "0", 2)
             ELSE <<"+">> \o RightAlign(NatChars(decpt - 1), "0", 2))
    ELSE IF decpt <= 0 THEN <<"0", ".">> \o [i \in 1..(0 - decpt) |-> "0"] \o ds
    ELSE IF decpt >= Len(ds) THEN ds \o [i \in 1..(decpt - Len(ds)) |-> "0"] \o <<".", "0">>
    ELSE SubSeq(ds, 1, decpt) \o <<".">> \o SubSeq(ds, decpt + 1, Len(ds))

\* repr(x) of a float, which format writes for "{}": the shortest digits
\* that read back as x
FloatRepr(x) ==
    With(x, LAMBDA a :
        IF a.cls = "nan" THEN <<"n", "a", "n">>
        ELSE (IF a.neg THEN <<"-">> ELSE <<>>) \o
             (IF a.cls = "inf" THEN <<"i", "n", "f">>
              ELSE IF a.m = <<>> THEN <<"0", ".", "0">>
              ELSE With(Shortest(a.m, a.e), LAMBDA s : ReprDigits(s.digits, s.decpt))))

----------------------------------------------------------------------------
(* The functions of declination.py *)

line2array(line, n_fields) ==
    With(strip(line), LAMBDA stripped_line :
        IF stripped_line = <<>> THEN None
        ELSE IF stripped_line[1] = COMMENT_INDICATOR THEN None
        ELSE With(split(stripped_line), LAMBDA parts :
                 IF n_fields # 0 /\ Len(parts) < n_FIELDS THEN Str(NotEnoughEntries)
                 ELSE List(parts)))

\* a slip: the minutes added as degrees
PlusSixtieth_undivided(d, m) == FAdd(d, m)

\* d + m / 60
PlusSixtieth(d, m) == FAdd(d, FDiv60(m))

\* line_array[i] of the Python code is a[i + 1] here, and f[i] is what
\* float(line_array[i]) does.  An index out of range is met before the first
\* call of float; a ValueError of float is caught.
line_array2query_dict(line_array) ==
    With(line_array, LAMBDA a :
        IF Len(a) < 8 THEN Raise("IndexError")
        ELSE With([i \in 3..7 |-> float(a[i + 1])], LAMBDA f :
            IF \E i \in 3..7 : f[i].exc # "none" THEN Return(Str(CouldNotConvert))
            ELSE Return(Dict([
                lat_d |-> a[4],
                lat_m |-> a[5],
                lon_d |-> a[6],
                lon_m |-> a[7],
                grid_offset |-> f[7].v,
                startYear |-> a[1],
                startMonth |-> a[2],
                startDay |-> a[3],
                lat1 |-> PlusSixtieth(f[3].v, f[4].v),
                lon1 |-> PlusSixtieth(f[5].v, f[6].v),
                lat1Hemisphere |-> <<"N">>,
                lon1Hemisphere |-> <<"W">>,
                ajaz |-> <<"t", "r", "u", "e">>,
                resultFormat |-> <<"c", "s", "v">>,
                grid |-> <<"o", "n">>]))))

\* The keyword arguments are evaluated in order; the first one that cannot
\* be evaluated decides the exception.
\* f[i] is what float(response_array[i]) does, an index out of range included.
response_array2dict(response_array) ==
    With(response_array, LAMBDA a :
    With([i \in 0..6 |-> IF i + 1 > Len(a) THEN Raise("IndexError") ELSE float(a[i + 1])],
         LAMBDA f :
    With({ i \in 0..6 : f[i].exc # "none" }, LAMBDA bad :
        IF bad # {} THEN Raise(f[MinOf(bad)].exc)
        ELSE Return(Dict([
            decimal_year |-> f[0].v,
            latitude |-> f[1].v,
            longitude |-> FNeg(f[2].v),
            elevation |-> f[3].v,
            declination |-> f[4].v,
            decl_sv |-> f[5].v,
            decl_uncertainty |-> f[6].v])))))

response2dict(response) ==
    With(split_on(response, "\n"), LAMBDA lines :
        IF Len(lines) < 2 THEN Raise("IndexError")
        ELSE response_array2dict(split_on(lines[Len(lines) - 1], ",")))

\* the third argument of format: site_dict['declination'] - in_dict['grid_offset']
grid_declination(in_dict, site_dict) ==
    FSub(site_dict.declination, in_dict.grid_offset)

\* i and s are the two records, the arguments 0 and 1 of format
processed_line(in_dict, site_dict) ==
    IF in_dict.type # "dict" \/ site_dict.type # "dict" THEN Raise("TypeError")
    ELSE With(in_dict.v, LAMBDA i : With(site_dict.v, LAMBDA s :
             Return(join(<<" ">>, <<
                LeftAlign(i.startYear, 4) \o <<"-">> \o RightAlign(i.startMonth, "0", 2)
                    \o <<"-">> \o RightAlign(i.startDay, "0", 2),
                i.lat_d \o <<DEGREE_SIGN, " ">> \o i.lat_m \o <<PRIME>>,
                i.lon_d \o <<DEGREE_SIGN, " ">> \o i.lon_m \o <<PRIME>>,
                Fixed3w6(i.grid_offset) \o <<" ", "|">>,
                Fixed3(s.decimal_year) \o <<" ">> \o Fixed3w6(s.latitude) \o <<DEGREE_SIGN>>,
                Fixed3w6(s.longitude) \o <<DEGREE_SIGN>>,
                Fixed3(s.declination) \o <<" ">>
                    \o Fixed3(grid_declination(i, s)) \o <<DEGREE_SIGN>> >>))))

\* a slip: the grid declination stored in the result record
\* (site_dict['declination'] -= in_dict['grid_offset'])
processed_line_stores(in_dict, site_dict) ==
    [in_dict |-> in_dict,
     site_dict |-> [site_dict EXCEPT
                        !.v.declination = FSub(@, in_dict.v.grid_offset)]]

\* the two dicts as processed_line leaves them: the fields {0[key]} and
\* {1[key]} of the format string and the two operands of the subtraction
\* read items of the dicts; the function has no assignment, no del and
\* calls no method of either dict
processed_line_leaves(in_dict, site_dict) ==
    [in_dict |-> in_dict, site_dict |-> site_dict]

\* r is what requests.get(SITE, params=source_dict) did: it raised, or it
\* returned a response whose text is r.v.
get_response_dict(source_dict, r) ==
    IF r.exc # "none" THEN r ELSE response2dict(r.v)

----------------------------------------------------------------------------
(* State *)

VARIABLES
    input_file_object,  \* the lines the input file yields, in order
    noheader,           \* args["--noheader"]
    header,             \* the global HEADER, which main may clear
    idx,                \* how many lines the for loop has taken
    output_array,       \* the collector of output lines
    origin,             \* history: origin[k] is the number of the input line
                        \* that appended output_array[k]
    requests,           \* history: the calls of requests.get, in order
    pc,                 \* "start", "loop", "done" or "raised" (an exception
                        \* left process_inputfile_object and ended the process)
    exc,                \* the exception that ended the process, or "none"
    outfile,            \* whether args["--outfile"] is given
    output,             \* the local variable output of main
    outfile_text,       \* what main wrote to the output file
    stdout,             \* what main printed
    call,               \* a single function call under test, with its
                        \* arguments as they are when the call is first made
    records,            \* the two dict objects the caller of processed_line
                        \* holds and passes (Python passes the objects
                        \* themselves), as they are now
    returned            \* what the calls under test returned, in order

vars == <<input_file_object, noheader, outfile, header, idx, output_array, origin,
          requests, pc, exc, output, outfile_text, stdout, call, records, returned>>

driverVars == <<input_file_object, noheader, outfile, header, idx, output_array,
                origin, requests, pc, exc, output, outfile_text, stdout>>

----------------------------------------------------------------------------
(* Inputs *)

\* "2015 08 28 63 375 96 15 abc"
BadOffsetLine == <<"2","0","1","5"," ","0","8"," ","2","8"," ","6","3"," ","3","7","5"," ","9","6"," ","1","5"," ","a","b","c">>

\* "2015 08 28 63 375 96 15 -2.46" with the fullwidth digits U+FF16, U+FF13 for 63
WideDigitsLine == <<"2","0","1","5"," ","0","8"," ","2","8"," ","U+FF16","U+FF13"," ","3","7","5"," ","9","6"," ","1","5"," ","-","2",".","4","6">>

\* line bodies, without the newline that ends them
SampleBodies == {
    <<>>,
    <<" ", " ">>,
    <<"#", " ", "c">>,
    <<"\f", "#", "c">>,
    <<"1", " ", "2", " ", "3">>,
    test_line,
    BadOffsetLine,
    WideDigitsLine }

\* "2015.54795,61.1,-101.1,0.0,5.52539,-0.10319,0.68124"
Row7 == <<"2","0","1","5",".","5","4","7","9","5",",","6","1",".","1",",","-","1","0","1",".","1",",","0",".","0",",","5",".","5","2","5","3","9",",","-","0",".","1","0","3","1","9",",","0",".","6","8","1","2","4">>
\* "2015.5,61.1,-101.1,0.0,5.52539"
Row5 == <<"2","0","1","5",".","5",",","6","1",".","1",",","-","1","0","1",".","1",",","0",".","0",",","5",".","5","2","5","3","9">>
\* "2015.5,61.1,x,0.0,5.52539,-0.1,0.6"
RowBad2 == <<"2","0","1","5",".","5",",","6","1",".","1",",","x",",","0",".","0",",","5",".","5","2","5","3","9",",","-","0",".","1",",","0",".","6">>
\* "2015.5,61.1,-101.1,0.0,5.52539,-0.1,x"
RowBad6 == <<"2","0","1","5",".","5",",","6","1",".","1",",","-","1","0","1",".","1",",","0",".","0",",","5",".","5","2","5","3","9",",","-","0",".","1",",","x">>
\* "2014.25,40.5,0,0.0,-3.2,0.1,0.3,x"
Row8 == <<"2","0","1","4",".","2","5",",","4","0",".","5",",","0",",","0",".","0",",","-","3",".","2",",","0",".","1",",","0",".","3",",","x">>

\* "2015.5,61.1,3,0.0,5.5,-0.1,0.6" with the Arabic-Indic digit U+0663 for 3
RowArabic == <<"2","0","1","5",".","5",",","6","1",".","1",",","U+0663",",","0",".","0",",","5",".","5",",","-","0",".","1",",","0",".","6">>

\* the pieces a response text is made of, joined by newlines
RespPieces == { <<>>, <<"h">>, Row7, Row5, RowBad2, RowBad6, Row8, RowArabic }

SeqsUpTo(S, n) == UNION { [1..k -> S] : k \in 0..n }

ResponseTexts ==
    { join(<<"\n">>, ps) : ps \in { q \in SeqsUpTo(RespPieces, MaxRespLines) : Len(q) >= 1 } }

\* what requests.get can do in the driver: raise, or return one of these texts
RemoteOutcomes ==
    { Raise("ConnectionError") } \cup
    { Return(join(<<"\n">>, ps)) :
        ps \in { <<<<"h">>>>, <<<<"h">>, Row7, <<>>>>, <<<<"h">>, Row5, <<>>>>,
                 <<<<"h">>, RowBad2, <<>>>>, <<<<"h">>, RowArabic, <<>>>> } }

\* what r.url can be in test(): the site, or the site and a query
TestUrls == { SITE, SITE \o <<"?","g","r","i","d","=","o","n">> }

\* The lines a text file yields: none is empty, every line but the last ends
\* with a newline, the last one may or may not.
FileLines(bodies, lastNewline) ==
    [ i \in 1..Len(bodies) |->
        IF i < Len(bodies) \/ lastNewline THEN Append(bodies[i], "\n") ELSE bodies[i] ]

InputFiles ==
    { FileLines(b, nl) : <<b, nl>> \in
        { x \in SeqsUpTo(SampleBodies, MaxLines) \X BOOLEAN :
            \/ x[2]
            \/ Len(x[1]) >= 1 /\ x[1][Len(x[1])] # <<>> } }

RECURSIVE Repeat(_, _, _)
\* n copies of tok joined by sep
Repeat(tok, sep, n) ==
    IF n = 0 THEN <<>> ELSE IF n = 1 THEN tok ELSE tok \o sep \o Repeat(tok, sep, n - 1)

\* lines of 0..MaxTokens tokens for line2array
ParserLines ==
    { pre \o mark \o Repeat(<<"1">>, sep, k) \o suf :
        pre \in { <<>>, <<" ">>, <<"\f">> }, mark \in { <<>>, <<"#">> },
        sep \in { <<" ">>, <<" ", "\t">> }, k \in 0..MaxTokens,
        suf \in { <<>>, <<"\n">> } }

\* tokens for the degrees, the minutes and the grid offset of a line
DegreeTokens == { <<"6","3">>, <<"9","6">>, <<"-","0">>, <<"a","b","c">>, <<"U+FF16","U+FF13">> }
MinuteTokens == { <<"3","7","5">>, <<"1","5">>, <<"1","e","1">>, <<"a","b","c">> }
OffsetTokens == { <<"-","2",".","4","6">>, <<"i","n","f">>, <<"a","b","c">> }

\* year, month and day tokens: a date, and tokens that are none
DateTokens == { <<<<"2","0","1","5">>, <<"0","8">>, <<"2","8">>>>,
                <<<<"y","y">>, <<"1","3">>, <<"-","4","5">>>> }

\* field sequences of 8 and 9 tokens for line_array2query_dict
LineArrays ==
    { date \o <<lat_d, lat_m, lon_d, lon_m, g>> \o extra :
        date \in DateTokens, lat_d \in DegreeTokens, lat_m \in MinuteTokens,
        lon_d \in DegreeTokens, lon_m \in MinuteTokens,
        g \in OffsetTokens, extra \in { <<>>, <<<<"x">>>> } }

\* records for processed_line
InDicts ==
    { line_array2query_dict(<<<<"2","0","1","5">>, <<"8">>, <<"2","8">>,
                              d, <<"3","7","5">>, <<"9","6">>, <<"1","5">>, g>>).v :
        d \in { <<"6","3">>, <<"1","5">> },
        g \in { <<"-","2",".","4","6">>, <<"1","5">>, <<"0",".","0","0","0","5">>, <<"-","0">> } }

SiteDicts ==
    { response_array2dict(split_on(row, ",")).v : row \in { Row7, Row8 } }

NoCall == [fn |-> "none"]
NoRecords == <<>>

----------------------------------------------------------------------------
(* The program: main, get_output and process_inputfile_object *)

Init ==
    /\ input_file_object \in InputFiles
    /\ noheader \in BOOLEAN
    /\ outfile \in BOOLEAN
    /\ header = HEADER
    /\ idx = 0
    /\ output_array = <<>>
    /\ origin = <<>>
    /\ requests = <<>>
    /\ pc = "start"
    /\ exc = "none"
    /\ output = <<>>
    /\ outfile_text = <<>>
    /\ stdout = <<>>
    /\ call = NoCall
    /\ records = NoRecords
    /\ returned = <<>>

\* main up to the call of get_output: --noheader clears the global HEADER
main_start ==
    /\ pc = "start"
    /\ header' = IF noheader THEN <<>> ELSE header
    /\ pc' = "loop"
    /\ UNCHANGED <<input_file_object, noheader, outfile, idx, output_array, origin,
                   requests, exc, output, outfile_text, stdout, call, records, returned>>

AtLine == pc = "loop" /\ idx < Len(input_file_object)
line == input_file_object[idx + 1]
line_array == line2array(line, n_FIELDS)

\* a slip: the marker appended whatever line2array gave
EchoEntries_always_marked(l, la) == <<MalformedMarker, AllButLast(l)>>

\* what the comment-or-error branch appends for a line
EchoEntries(l, la) ==
    (IF Truthy(la) THEN <<MalformedMarker>> ELSE <<>>) \o <<AllButLast(l)>>

Collect(entries) ==
    /\ output_array' = output_array \o entries
    /\ origin' = origin \o [k \in 1..Len(entries) |-> idx + 1]
    /\ idx' = idx + 1

\* one pass of the loop over a comment or blank line (line2array gave None)
echo_line ==
    /\ AtLine
    /\ line_array.type = "NoneType"
    /\ Collect(EchoEntries(line, line_array))
    /\ UNCHANGED <<input_file_object, noheader, outfile, header, requests, pc, exc,
                   output, outfile_text, stdout, call, records, returned>>

\* one pass of the loop over a line line2array reports as an error string
malformed_line ==
    /\ AtLine
    /\ line_array.type = "str"
    /\ Collect(EchoEntries(line, line_array))
    /\ UNCHANGED <<input_file_object, noheader, outfile, header, requests, pc, exc,
                   output, outfile_text, stdout, call, records, returned>>

Raised(e) ==
    /\ pc' = "raised"
    /\ exc' = e
    /\ idx' = idx + 1
    /\ UNCHANGED <<output_array, origin>>

\* one pass of the loop over a data line
data_line ==
    /\ AtLine
    /\ line_array.type = "list"
    /\ \E r \in RemoteOutcomes :
       \E source_dict \in { line_array2query_dict(line_array.v) } :
        IF source_dict.exc # "none"
        THEN Raised(source_dict.exc) /\ UNCHANGED requests
        ELSE /\ requests' = Append(requests, [url |-> SITE, params |-> source_dict.v])
             /\ \E retrieved_dict \in { get_response_dict(source_dict.v, r) } :
                 IF retrieved_dict.exc # "none" THEN Raised(retrieved_dict.exc)
                 ELSE \E output_line \in { processed_line(source_dict.v, retrieved_dict.v) } :
                      IF output_line.exc # "none" THEN Raised(output_line.exc)
                      ELSE Collect(<<output_line.v>>) /\ UNCHANGED <<pc, exc>>
    /\ UNCHANGED <<input_file_object, noheader, outfile, header, output,
                   outfile_text, stdout, call, records, returned>>

\* the input is exhausted: get_output joins the collector, main puts the
\* header in front and writes the result to the output file, or prints it,
\* which ends it with a newline
main_output ==
    /\ pc = "loop"
    /\ idx = Len(input_file_object)
    /\ output' = header \o join(<<"\n">>, output_array)
    /\ IF outfile
       THEN outfile_text' = output' /\ UNCHANGED stdout
       ELSE stdout' = output' \o <<"\n">> /\ UNCHANGED outfile_text
    /\ pc' = "done"
    /\ UNCHANGED <<input_file_object, noheader, outfile, header, idx, output_array,
                   origin, requests, exc, call, records, returned>>

Next == main_start \/ echo_line \/ malformed_line \/ data_line \/ main_output

Spec == Init /\ [][Next]_vars

----------------------------------------------------------------------------
(* The functions called on their own *)

\* repr of the record response_array2dict makes, which format writes for
\* "{}": the keys in the order of the keyword arguments
DictRepr(d) ==
    With(d, LAMBDA r :
        <<"{">> \o join(<<",", " ">>, <<
            <<"'","d","e","c","i","m","a","l","_","y","e","a","r","'",":"," ">> \o FloatRepr(r.decimal_year),
            <<"'","l","a","t","i","t","u","d","e","'",":"," ">> \o FloatRepr(r.latitude),
            <<"'","l","o","n","g","i","t","u","d","e","'",":"," ">> \o FloatRepr(r.longitude),
            <<"'","e","l","e","v","a","t","i","o","n","'",":"," ">> \o FloatRepr(r.elevation),
            <<"'","d","e","c","l","i","n","a","t","i","o","n","'",":"," ">> \o FloatRepr(r.declination),
            <<"'","d","e","c","l","_","s","v","'",":"," ">> \o FloatRepr(r.decl_sv),
            <<"'","d","e","c","l","_","u","n","c","e","r","t","a","i","n","t","y","'",":"," ">> \o FloatRepr(r.decl_uncertainty) >>) \o <<"}">>)

\* print(s): s and a newline
PrintLine(s) == s \o <<"\n">>

\* test(): one pass over test_line that prints what it meets.  r is what
\* requests.get(SITE, params=payload) does and url is r.url.  What test did:
\* the calls of requests.get, the text printed, and how it ended.  Only a
\* dict payload is requested; for an error string response_dict is never
\* bound, which the last statement meets after two prints.  la is the
\* local line_array.
test(r, url) ==
    With(line2array(test_line, n_FIELDS), LAMBDA la :
    With(IF la.type = "NoneType" THEN Raise("TypeError")
         ELSE line_array2query_dict(la.v), LAMBDA payload :
        IF payload.exc # "none"
        THEN [requests |-> <<>>, printed |-> <<>>, result |-> Raise(payload.exc)]
        ELSE IF payload.v.type = "dict"
        THEN With(<<[url |-> SITE, params |-> payload.v]>>, LAMBDA got :
             IF r.exc # "none"
             THEN [requests |-> got, printed |-> <<>>, result |-> Raise(r.exc)]
             ELSE With(response2dict(r.v), LAMBDA response_dict :
                  IF response_dict.exc # "none"
                  THEN [requests |-> got, printed |-> <<>>,
                        result |-> Raise(response_dict.exc)]
                  ELSE [requests |-> got,
                        printed |->
                            PrintLine(UrlIs \o url \o UrlEnd)
                            \o PrintLine(ResponseIs \o r.v \o EndOfResponse)
                            \o PrintLine(ResponseIsOfType)
                            \o PrintLine(ResponseAsDict \o DictRepr(response_dict.v.v))
                            \o PrintLine(NextTwoLines)
                            \o PrintLine(header)
                            \o PrintLine(processed_line(payload.v, response_dict.v).v),
                        result |-> Return(None)]))
        ELSE [requests |-> <<>>,
              printed |-> PrintLine(payload.v.v) \o PrintLine(NextTwoLines)
                          \o PrintLine(header),
              result |-> Raise("UnboundLocalError")]))

FnInit ==
    /\ \/ call \in { [fn |-> "line2array", line |-> l, n_fields |-> n] :
                        l \in ParserLines, n \in 0..MaxFields }
       \/ call \in { [fn |-> "line_array2query_dict", line_array |-> a] :
                        a \in LineArrays }
       \/ call \in { [fn |-> "response2dict", response |-> t] : t \in ResponseTexts }
       \/ call \in { [fn |-> "processed_line", in_dict |-> i, site_dict |-> s] :
                        i \in InDicts, s \in SiteDicts }
       \/ call \in { [fn |-> "test", r |-> r, url |-> u] :
                        r \in RemoteOutcomes, u \in TestUrls }
    /\ records = IF call.fn = "processed_line"
                 THEN [in_dict |-> call.in_dict, site_dict |-> call.site_dict]
                 ELSE NoRecords
    /\ returned = <<>>
    /\ input_file_object = <<>>
    /\ noheader = FALSE
    /\ outfile = FALSE
    /\ header = HEADER
    /\ idx = 0
    /\ output_array = <<>>
    /\ origin = <<>>
    /\ requests = <<>>
    /\ pc = "idle"
    /\ exc = "none"
    /\ output = <<>>
    /\ outfile_text = <<>>
    /\ stdout = <<>>

call_line2array ==
    /\ call.fn = "line2array"
    /\ returned = <<>>
    /\ returned' = <<Return(line2array(call.line, call.n_fields))>>
    /\ UNCHANGED <<call, records, driverVars>>

call_line_array2query_dict ==
    /\ call.fn = "line_array2query_dict"
    /\ returned = <<>>
    /\ returned' = <<line_array2query_dict(call.line_array)>>
    /\ UNCHANGED <<call, records, driverVars>>

call_response2dict ==
    /\ call.fn = "response2dict"
    /\ returned = <<>>
    /\ returned' = <<response2dict(call.response)>>
    /\ UNCHANGED <<call, records, driverVars>>

\* processed_line is called up to twice on the same two dict objects: each
\* call reads them as the call before left them
call_processed_line ==
    /\ call.fn = "processed_line"
    /\ Len(returned) < 2
    /\ returned' = Append(returned, processed_line(records.in_dict, records.site_dict))
    /\ records' = processed_line_leaves(records.in_dict, records.site_dict)
    /\ UNCHANGED <<call, driverVars>>

\* test() called on its own: it calls requests.get and prints
call_test ==
    /\ call.fn = "test"
    /\ returned = <<>>
    /\ \E did \in { test(call.r, call.url) } :
        /\ requests' = requests \o did.requests
        /\ stdout' = stdout \o did.printed
        /\ returned' = <<did.result>>
    /\ UNCHANGED <<call, records, input_file_object, noheader, outfile, header, idx,
                   output_array, origin, pc, exc, output, outfile_text>>

FnNext ==
    \/ call_line2array
    \/ call_line_array2query_dict
    \/ call_response2dict
    \/ call_processed_line
    \/ call_test

FnSpec == FnInit /\ [][FnNext]_vars

----------------------------------------------------------------------------
(* Vocabulary of the properties *)

Numeric(tok) == float(tok).exc = "none"
Value(tok) == float(tok).v

\* blank (empty or all whitespace), or first non-whitespace character '#'
IsBlank(l) == \A i \in 1..Len(l) : l[i] \in Whitespace
IsComment(l) == ~IsBlank(l) /\ strip(l)[1] = "#"
IsMalformed(l, min_fields) ==
    ~IsBlank(l) /\ ~IsComment(l) /\ Len(split(l)) < min_fields

\* the line with only its trailing newline removed
WithoutNewline(l) == IF l # <<>> /\ l[Len(l)] = "\n" THEN AllButLast(l) ELSE l

\* the lines whose pass of the loop ran to its end
Completed == IF pc = "raised" THEN idx - 1 ELSE idx

EntriesOf(i) == { k \in 1..Len(origin) : origin[k] = i }

Ordered == \A j, k \in 1..Len(origin) : j < k => origin[j] <= origin[k]

Got == returned[1]
Called(fn) == call.fn = fn /\ returned # <<>>

\* the data row of a response text and its fields
RespLines == split_on(call.response, "\n")
DataRow == RespLines[Len(RespLines) - 1]
Fields == split_on(DataRow, ",")

----------------------------------------------------------------------------
(* Properties *)

\* C1: a failure of a per-line stage (query building, transport, decoding)
\* on a data line never ends the run: no exception leaves the loop, and
\* when the run is done every input line has contributed to the output.
C1_StageFailuresStayLocal ==
    /\ pc # "raised"
    /\ pc = "done" => \A i \in 1..Len(input_file_object) : EntriesOf(i) # {}

\* C2 as claimed: after n lines the collector holds exactly n entries, in
\* input order.
C2_OneEntryPerLine ==
    pc = "done" => Len(output_array) = Len(input_file_object) /\ Ordered

\* C2 as amended: after the passes over the first k lines have run to their
\* end (k = n when the run is done) the collector holds, in input order,
\* two entries for every malformed line (non-blank, non-comment, fewer than
\* 8 tokens) among them and one entry for every other line; so it holds
\* k + m entries, m the number of malformed lines among the k.
C2_EntriesPerLine ==
    /\ Ordered
    /\ Len(origin) = Len(output_array)
    /\ \A i \in 1..Len(input_file_object) :
        Cardinality(EntriesOf(i)) =
            IF i > Completed THEN 0
            ELSE IF IsMalformed(input_file_object[i], 8) THEN 2 ELSE 1
    /\ Len(output_array) =
        Completed + Cardinality({ i \in 1..Completed : IsMalformed(input_file_object[i], 8) })

\* C2 witness: a finished run over two lines, one of them malformed, with
\* three entries collected
C2_Witness ==
    /\ pc = "done"
    /\ Len(input_file_object) = 2
    /\ IsMalformed(input_file_object[1], 8)
    /\ ~IsMalformed(input_file_object[2], 8)
    /\ Len(output_array) = 3

\* C3: the entry appended for a comment line or a blank line is the line
\* with only its trailing newline removed, also for a final line that has
\* no trailing newline.
C3_CommentAndBlankRoundTrip ==
    \A k \in 1..Len(output_array) :
        LET l == input_file_object[origin[k]]
        IN  IsBlank(l) \/ IsComment(l) => output_array[k] = WithoutNewline(l)

\* C4: for min_fields >= 1, line2array gives the error string exactly when
\* the line is neither blank nor a comment and has fewer than min_fields
\* tokens, and gives the full token list for every other non-blank,
\* non-comment line.
C4_MalformedBelowMinFields ==
    Called("line2array") /\ call.n_fields >= 1 =>
        LET l == call.line
        IN  /\ Got.v.type = "str" <=> IsMalformed(l, call.n_fields)
            /\ ~IsBlank(l) /\ ~IsComment(l) /\ ~IsMalformed(l, call.n_fields)
                => Got.v.type = "list" /\ Got.v.v = split(l)

\* C5: for a field sequence of at least 8 tokens line_array2query_dict
\* returns the error string (and raises nothing) when one of tokens 3..7 is
\* not a number; otherwise it returns a record with lat1 = tok3 + tok4/60,
\* lon1 = tok5 + tok6/60 without range check (63 and 375 give 69.25, 96 and
\* 15 give 96.25), the grid offset converted, and year, month and day passed
\* through as given.
C5_QueryDict ==
    Called("line_array2query_dict") /\ Len(call.line_array) >= 8 =>
        LET a == call.line_array
            tok(i) == a[i + 1]
        IN  /\ Got.exc = "none"
            /\ IF \E i \in 3..7 : ~Numeric(tok(i))
               THEN Got.v = Str(CouldNotConvert)
               ELSE /\ Got.v.type = "dict"
                    /\ LET d == Got.v.v
                       IN  /\ d.lat1 = FAdd(Value(tok(3)), FDiv60(Value(tok(4))))
                           /\ d.lon1 = FAdd(Value(tok(5)), FDiv60(Value(tok(6))))
                           /\ d.grid_offset = Value(tok(7))
                           /\ <<d.startYear, d.startMonth, d.startDay>> = <<tok(0), tok(1), tok(2)>>
                           /\ tok(3) = <<"6","3">> /\ tok(4) = <<"3","7","5">>
                                => d.lat1 = Value(<<"6","9",".","2","5">>)
                           /\ tok(5) = <<"9","6">> /\ tok(6) = <<"1","5">>
                                => d.lon1 = Value(<<"9","6",".","2","5">>)
            /\ tok(7) = <<"a","b","c">> => Got.v.type = "str"

\* C5 witness: the tokens of the test line were converted, lat1 = 69.25
C5_Witness ==
    /\ Called("line_array2query_dict")
    /\ call.line_array = split(test_line)
    /\ Got.v.type = "dict"
    /\ Got.v.v.lat1 = Value(<<"6","9",".","2","5">>)
    /\ Got.v.v.lon1 = Value(<<"9","6",".","2","5">>)

\* the record response2dict is to return for a data row
DecodesRow ==
    /\ Got.exc = "none"
    /\ Got.v.type = "dict"
    /\ Got.v.v.decimal_year = Value(Fields[1])
    /\ Got.v.v.latitude = Value(Fields[2])
    /\ Got.v.v.longitude = FNeg(Value(Fields[3]))
    /\ Got.v.v.declination = Value(Fields[5])

\* C6: whenever the text has at least two newline-delimited pieces and the
\* second-to-last is a comma-separated row of numeric fields, response2dict
\* returns the record with decimal_year = field 0, latitude = field 1,
\* longitude = the negation of field 2 and declination = field 4, whatever
\* the other pieces hold.
C6_DecodesNumericRow ==
    Called("response2dict") /\ Len(RespLines) >= 2
        /\ (\A i \in 1..Len(Fields) : Numeric(Fields[i]))
    => DecodesRow

\* C7: a response that cannot be decoded (fewer than 2 lines, fewer than 5
\* fields, a required field not numeric) is a per-line error and a row of
\* 5 or more fields with numeric required fields is decoded: the IndexError
\* and ValueError of decoding never leave the loop as an unhandled fault.
C7_DecodeFailureIsPerLine ==
    pc = "raised" => exc \notin { "IndexError", "ValueError" }

\* C8: the last field processed_line renders is the float
\* declination - grid_offset of the two records it was passed, formatted to
\* three decimals (5.52539 and -2.46 give 7.98539, shown as 7.985); after a
\* call the two dict objects hold what they held when they were passed; and
\* a second call on the same two objects returns the same text as the first.
C8_GridDeclination ==
    Called("processed_line") =>
        LET toks == split(Got.v)
            last == toks[Len(toks)]
            declination == call.site_dict.v.declination
            grid_offset == call.in_dict.v.grid_offset
            exact == FSub(declination, grid_offset)
        IN  /\ Got.exc = "none"
            /\ last = Fixed3(exact) \o <<DEGREE_SIGN>>
            /\ declination = Value(<<"5",".","5","2","5","3","9">>)
                    /\ grid_offset = Value(<<"-","2",".","4","6">>)
                => /\ exact = Value(<<"7",".","9","8","5","3","9">>)
                   /\ AllButLast(last) = <<"7", ".", "9", "8", "5">>
            /\ records.in_dict = call.in_dict
            /\ records.site_dict = call.site_dict
            /\ Len(returned) = 2 => returned[2] = returned[1]

\* C8 witness: two calls on the records with declination 5.52539 and grid
\* offset -2.46, the second made on the objects the first call left
C8_Witness ==
    /\ call.fn = "processed_line"
    /\ Len(returned) = 2
    /\ records.site_dict.v.declination = Value(<<"5",".","5","2","5","3","9">>)
    /\ records.in_dict.v.grid_offset = Value(<<"-","2",".","4","6">>)
    /\ returned[2].exc = "none"
    /\ returned[2].v = processed_line(call.in_dict, call.site_dict).v

RECURSIVE BuiltQueries(_)
\* the request records of the data lines among the first n lines whose
\* query was built, in input order
BuiltQueries(n) ==
    IF n = 0 THEN <<>>
    ELSE LET l == input_file_object[n]
             q == line_array2query_dict(split(l))
             isData == ~IsBlank(l) /\ ~IsComment(l) /\ ~IsMalformed(l, 8)
         IN  IF isData /\ q.exc = "none" /\ q.v.type = "dict"
             THEN Append(BuiltQueries(n - 1), q.v)
             ELSE BuiltQueries(n - 1)

\* C9: the requests issued are exactly those of the data lines whose query
\* was built, one each, in input order; no request is issued for a line
\* whose query could not be built.
C9_RequestsOnlyForBuiltQueries ==
    /\ Len(requests) = Len(BuiltQueries(idx))
    /\ \A k \in 1..Len(requests) :
        requests[k].params.type = "dict" /\ requests[k].params = BuiltQueries(idx)[k]

\* what main wrote: the text of the output file, or what it printed
Document == IF outfile THEN outfile_text ELSE stdout

\* C10: without --noheader the document is the header on a line of its own
\* followed by the entries, one per line; with --noheader it is the entries
\* joined by newlines (print ends the document with a newline).
C10_HeaderOnItsOwnLine ==
    pc = "done" =>
        Document = join(<<"\n">>, (IF noheader THEN <<>> ELSE <<HEADER>>) \o output_array)
                       \o (IF outfile THEN <<>> ELSE <<"\n">>)

====
